---- MODULE Spec2Model ----
(***************************************************************************)
(* Model of utf8stream.h (WinUTF8Console): the UConverter transcoding      *)
(* primitives, the strict string_to_u32string of the earlier header        *)
(* variants, the buffered reader UTF8ConsoleInput, the writer              *)
(* UTF8ConsoleOutput, the code-page guard UTF8Console and FastString.      *)
(*                                                                         *)
(* Bytes are integers 0..255, 16-bit units are integers 0..65535 and code  *)
(* points are non-negative integers.  A C++ pointer into a string is       *)
(* modelled by its 0-based offset, so the byte *src is str[src + 1].       *)
(*                                                                         *)
(* SpecConv applies one conversion to one input.  SpecReader runs the      *)
(* reader's operations in any order on one source; SpecReaderLive adds the *)
(* progress of a running readLines call; SpecChunk runs the reader with a  *)
(* small chunk size next to a reader that refills whole lines; SpecDecoded *)
(* applies one decoded read to a fresh reader.                             *)
(* SpecOutput runs the writer UTF8ConsoleOutput, SpecConsole the life of   *)
(* the static UTF8Console object from process start to process end,        *)
(* SpecFastString the operations of one FastString, and SpecInput2 the     *)
(* readWord of the header variant that buffers in a std::string.           *)
(***************************************************************************)
EXTENDS Integers, Sequences, FiniteSets, TLC

VARIABLES
    call,      \* name of the conversion applied last ("none" initially)
    arg,       \* its input: a sequence of bytes, units or code points
    mid,       \* intermediate sequence of a two-stage conversion
    ret,       \* its result sequence
    raised,    \* TRUE when the conversion threw UException
    used,      \* number of input units the last decode_ call consumed
    oob,       \* TRUE when a write fell outside the pre-sized output buffer
    stdin,     \* bytes of the source not yet pulled by fread
    buffer,    \* UTF8ConsoleInput::buffer (contents of the FastString)
    pos,       \* UTF8ConsoleInput::pos
    pc,        \* "idle", or "readLines" while a readLines call is running
    line,      \* readLines: local FastString line
    lines,     \* readLines: local vector result, returned when pc is "idle" again
    empty_break, \* readLines: parameter
    break_word,  \* readLines: parameter (-1 is EOF)
    lastop,    \* name of the reader operation called last
    word,      \* value returned by lastop when it is get / readWord / readLine / >>
    value,     \* target variable of operator>> (an int)
    fault,     \* TRUE when FastString::operator[] threw "index out of range"
    chunk_size, \* number of bytes one fill_buffer_ call pulls at most
    entry,     \* readLines: the input not yet consumed when the call began
    ref,       \* a second reader of the same source, refilling whole lines
    refword,   \* value the last operation returned on ref
    ucout,     \* a UTF8ConsoleOutput and the stream it writes to
    utf8_console_instance, \* the UTF8Console object, the console's code pages
               \* and how far the process has got
    fast_string, \* a FastString: its fields and the bytes data_ holds
    ucin2      \* the UTF8ConsoleInput of the std::string-buffered variant

convVars == <<call, arg, mid, ret, raised, used, oob>>
refVars == <<chunk_size, ref, refword>>
readerVars == <<stdin, buffer, pos, pc, line, lines, empty_break, break_word,
                lastop, word, value, fault, entry, refVars>>
restVars == <<ucout, utf8_console_instance, fast_string, ucin2>>
vars == <<call, arg, mid, ret, raised, used, oob, stdin, buffer, pos, pc,
          line, lines, empty_break, break_word, lastop, word, value, fault,
          chunk_size, entry, ref, refword, ucout, utf8_console_instance,
          fast_string, ucin2>>

----------------------------------------------------------------------------
(* Bounds of the explored inputs *)

MaxBytes == 3      \* longest byte string over all of ByteSamples
MaxUnits == 3      \* longest 16-bit string handed to a conversion
MaxCps == 2        \* longest code point string handed to a conversion
CpStride == 4369   \* spacing of the sampled code points between boundaries

REPLACEMENT == 65533

\* UTF8ConsoleInput::chunkSize
chunkSize == 1024   \* 0xFFFD

\* Byte values covering every lead class, continuation bytes and ASCII.
ByteSamples == {65, 128, 144, 159, 160, 191, 192, 194, 224, 237, 240, 244, 248}

\* 16-bit units: BMP values and the edges of both surrogate ranges.
UnitSamples == {65, 55295, 55296, 56319, 56320, 57343, 57344, 65533}

\* 32-bit values at every branch boundary of the encoders, plus a stride.
CpBoundaries ==
    {0, 65, 127, 128, 2047, 2048, 55295, 55296, 56319, 56320, 57343, 57344,
     65533, 65535, 65536, 128512, 1114111, 1114112, 2097151, 2147483647}

CodePointSamples ==
    CpBoundaries \cup {k * CpStride : k \in 0..(1114111 \div CpStride)}

\* Code points used inside sequences.
CpSeqSamples == {65, 2048, 55296, 57343, 65533, 65536, 128512, 1114111, 1114112}

RECURSIVE SeqsUpTo(_, _)
SeqsUpTo(S, n) ==
    IF n = 0 THEN {<<>>}
    ELSE LET shorter == SeqsUpTo(S, n - 1)
         IN  shorter \cup {Append(s, x) : s \in {t \in shorter : Len(t) = n - 1}, x \in S}

\* Four-byte sequences: a four-byte lead and three bytes that are
\* continuation bytes or not.
FourByteStrings ==
    {<<a, b, c, d>> : a \in {240, 244}, b \in {65, 128, 144}, c \in {65, 128}, d \in {65, 128}}

ByteStrings == SeqsUpTo(ByteSamples, MaxBytes) \cup FourByteStrings
UnitStrings == SeqsUpTo(UnitSamples, MaxUnits)
CpStrings == SeqsUpTo(CpSeqSamples, MaxCps)

----------------------------------------------------------------------------
(* Bit operations of the source, on non-negative integers *)

\* x & mask, for a mask that keeps the bits from bit k upwards
HiBits(x, k) == (x \div (2 ^ k)) * (2 ^ k)
\* x & mask, for a mask that keeps the k low bits
LoBits(x, k) == x % (2 ^ k)
\* x >> k
Shr(x, k) == x \div (2 ^ k)
\* static_cast<char>(x), as an unsigned byte value
ToChar(x) == x % 256
\* static_cast<wchar_t>(x), wchar_t being 16 bits wide on Windows
ToWchar(x) == x % 65536

IsSurrogate(cp) == cp >= 55296 /\ cp <= 57343

----------------------------------------------------------------------------
(* UConverter::decode_ : decodes one character of str starting at offset   *)
(* src, reading no byte at or after offset end.  The result holds the code *)
(* point and the advanced offset.                                          *)

Decoded(cp, src) == [cp |-> cp, src |-> src]

\* The two-byte branch without its length test.
decode_twoUnguarded(str, src, end, first_byte) ==
    LET second_byte == str[src + 1]
    IN  IF HiBits(second_byte, 6) # 128 THEN Decoded(REPLACEMENT, src + 1)
        ELSE Decoded(LoBits(first_byte, 5) * 64 + LoBits(second_byte, 6), src + 1)

\* two-byte branch (110x xxxx); src is already past the lead byte
decode_two(str, src, end, first_byte) ==
    IF src >= end THEN Decoded(REPLACEMENT, src)
    ELSE LET second_byte == str[src + 1]
         IN  IF HiBits(second_byte, 6) # 128 THEN Decoded(REPLACEMENT, src + 1)
             ELSE Decoded(LoBits(first_byte, 5) * 64 + LoBits(second_byte, 6), src + 1)

\* The three-byte branch with its length test off by one (src + 2 >= end).
decode_threeShort(str, src, end, first_byte) ==
    IF src + 2 >= end THEN Decoded(REPLACEMENT, src)
    ELSE LET second_byte == str[src + 1]
             third_byte == str[src + 2]
         IN  IF HiBits(second_byte, 6) # 128 \/ HiBits(third_byte, 6) # 128
             THEN Decoded(REPLACEMENT, src + 2)
             ELSE Decoded(LoBits(first_byte, 4) * 4096 + LoBits(second_byte, 6) * 64
                          + LoBits(third_byte, 6), src + 2)

\* three-byte branch (1110 xxxx)
decode_three(str, src, end, first_byte) ==
    IF src + 1 >= end THEN Decoded(REPLACEMENT, src)
    ELSE LET second_byte == str[src + 1]
             third_byte == str[src + 2]
         IN  IF HiBits(second_byte, 6) # 128 \/ HiBits(third_byte, 6) # 128
             THEN Decoded(REPLACEMENT, src + 2)
             ELSE Decoded(LoBits(first_byte, 4) * 4096 + LoBits(second_byte, 6) * 64
                          + LoBits(third_byte, 6), src + 2)

\* four-byte branch (1111 0xxx)
decode_four(str, src, end, first_byte) ==
    IF src + 2 >= end THEN Decoded(REPLACEMENT, src)
    ELSE LET second_byte == str[src + 1]
             third_byte == str[src + 2]
             fourth_byte == str[src + 3]
         IN  IF HiBits(second_byte, 6) # 128 \/ HiBits(third_byte, 6) # 128
                \/ HiBits(fourth_byte, 6) # 128
             THEN Decoded(REPLACEMENT, src + 3)
             ELSE Decoded(LoBits(first_byte, 3) * 262144 + LoBits(second_byte, 6) * 4096
                          + LoBits(third_byte, 6) * 64 + LoBits(fourth_byte, 6), src + 3)

\* The final result mistyped as 0xFFFFD.
decode_invalidTypo(src) == Decoded(1048573, src)

\* final return: the lead byte matches no pattern
decode_invalid(src) == Decoded(REPLACEMENT, src)

decode_(str, src, end) ==
    IF src >= end THEN Decoded(REPLACEMENT, src)
    ELSE
    LET first_byte == str[src + 1]
    IN
    IF first_byte < 128 THEN Decoded(first_byte, src + 1)
    ELSE IF HiBits(first_byte, 5) = 192 THEN decode_two(str, src + 1, end, first_byte)
    ELSE IF HiBits(first_byte, 4) = 224 THEN decode_three(str, src + 1, end, first_byte)
    ELSE IF HiBits(first_byte, 3) = 240 THEN decode_four(str, src + 1, end, first_byte)
    ELSE decode_invalid(src + 1)

(* UConverter::encode_ : the bytes written to dest; their number is the    *)
(* return value.                                                           *)

\* The three-byte branch without the surrogate replacement.
encode_threeNoCheck(code_point) ==
    <<ToChar(224 + Shr(code_point, 12)),
      ToChar(128 + LoBits(Shr(code_point, 6), 6)),
      ToChar(128 + LoBits(code_point, 6))>>

\* three-byte branch: 1110xxxx 10xxxxxx 10xxxxxx
encode_three(code_point) ==
    LET cp == IF code_point >= 55296 /\ code_point <= 57343
              THEN REPLACEMENT ELSE code_point
    IN  <<ToChar(224 + Shr(cp, 12)),
          ToChar(128 + LoBits(Shr(cp, 6), 6)),
          ToChar(128 + LoBits(cp, 6))>>

RECURSIVE encode_(_)
encode_(code_point) ==
    IF code_point <= 127 THEN <<ToChar(code_point)>>
    ELSE IF code_point <= 2047 THEN
        <<ToChar(192 + Shr(code_point, 6)), ToChar(128 + LoBits(code_point, 6))>>
    ELSE IF code_point <= 65535 THEN encode_three(code_point)
    ELSE IF code_point <= 1114111 THEN
        <<ToChar(240 + Shr(code_point, 18)),
          ToChar(128 + LoBits(Shr(code_point, 12), 6)),
          ToChar(128 + LoBits(Shr(code_point, 6), 6)),
          ToChar(128 + LoBits(code_point, 6))>>
    ELSE encode_(REPLACEMENT)

----------------------------------------------------------------------------
(* UConverter::convert_ overloads.  Each result holds the output string    *)
(* (after the final resize) and whether a write fell outside the buffer    *)
(* that was pre-sized before the loop.                                     *)

Converted(out, o) == [out |-> out, oob |-> o]

\* units written for a decoded code point, string -> wstring
utf16_units(code_point) ==
    IF code_point <= 65535 THEN <<ToWchar(code_point)>>
    ELSE LET c == code_point - 65536
         IN  <<ToWchar(55296 + Shr(c, 10)), ToWchar(56320 + LoBits(c, 10))>>

RECURSIVE convert_string_wstring_loop(_, _, _, _)
convert_string_wstring_loop(str, src, dest, o) ==
    LET len == Len(str) IN
    IF src >= len THEN Converted(dest, o)
    ELSE IF str[src + 1] < 128
    THEN convert_string_wstring_loop(str, src + 1, Append(dest, str[src + 1]),
                                     o \/ Len(dest) + 1 > len)
    ELSE LET d == decode_(str, src, len)
             units == utf16_units(d.cp)
         IN  convert_string_wstring_loop(str, d.src, dest \o units,
                                         o \/ Len(dest) + Len(units) > len)

convert_string_wstring(str) ==
    IF str = <<>> THEN Converted(<<>>, FALSE)
    ELSE convert_string_wstring_loop(str, 0, <<>>, FALSE)

RECURSIVE convert_string_u32string_loop(_, _, _, _)
convert_string_u32string_loop(str, src, dest, o) ==
    LET len == Len(str) IN
    IF src >= len THEN Converted(dest, o)
    ELSE IF str[src + 1] < 128
    THEN convert_string_u32string_loop(str, src + 1, Append(dest, str[src + 1]),
                                       o \/ Len(dest) + 1 > len)
    ELSE LET d == decode_(str, src, len)
         IN  convert_string_u32string_loop(str, d.src, Append(dest, d.cp),
                                           o \/ Len(dest) + 1 > len)

convert_string_u32string(str) ==
    IF str = <<>> THEN Converted(<<>>, FALSE)
    ELSE convert_string_u32string_loop(str, 0, <<>>, FALSE)

\* One iteration of the wstring -> u32string loop that also skips the unit
\* after an unpaired high surrogate.
wstring_u32string_stepSkip(wstr, i) ==
    LET len == Len(wstr)
        code_unit == wstr[i + 1]
    IN
    IF code_unit >= 55296 /\ code_unit <= 56319 THEN
        IF i + 1 < len /\ wstr[i + 2] >= 56320 /\ wstr[i + 2] <= 57343
        THEN Decoded(65536 + (code_unit - 55296) * 1024 + (wstr[i + 2] - 56320), i + 2)
        ELSE Decoded(REPLACEMENT, i + 2)
    ELSE IF code_unit >= 56320 /\ code_unit <= 57343 THEN Decoded(REPLACEMENT, i + 1)
    ELSE Decoded(code_unit, i + 1)

\* one iteration of the wstring -> u32string loop: the code point written
\* and the index the next iteration starts at
wstring_u32string_step(wstr, i) ==
    LET len == Len(wstr)
        code_unit == wstr[i + 1]
    IN
    IF code_unit >= 55296 /\ code_unit <= 56319 THEN
        IF i + 1 < len /\ wstr[i + 2] >= 56320 /\ wstr[i + 2] <= 57343
        THEN Decoded(65536 + (code_unit - 55296) * 1024 + (wstr[i + 2] - 56320), i + 2)
        ELSE Decoded(REPLACEMENT, i + 1)
    ELSE IF code_unit >= 56320 /\ code_unit <= 57343 THEN Decoded(REPLACEMENT, i + 1)
    ELSE Decoded(code_unit, i + 1)

RECURSIVE convert_wstring_u32string_loop(_, _, _, _)
convert_wstring_u32string_loop(wstr, i, dest, o) ==
    LET len == Len(wstr) IN
    IF i >= len THEN Converted(dest, o)
    ELSE LET d == wstring_u32string_step(wstr, i)
         IN  convert_wstring_u32string_loop(wstr, d.src, Append(dest, d.cp),
                                            o \/ Len(dest) + 1 > len)

convert_wstring_u32string(wstr) ==
    IF wstr = <<>> THEN Converted(<<>>, FALSE)
    ELSE convert_wstring_u32string_loop(wstr, 0, <<>>, FALSE)

\* get_code_point_ that returns the pair's value without consuming the low
\* surrogate.
get_code_point_NoAdvance(wstr, src, end) ==
    IF src >= end THEN Decoded(REPLACEMENT, src)
    ELSE
    LET first_unit == wstr[src + 1]
        s1 == src + 1
    IN
    IF first_unit < 55296 \/ first_unit > 57343 THEN Decoded(first_unit, s1)
    ELSE IF first_unit <= 56319 /\ s1 < end
            /\ wstr[s1 + 1] >= 56320 /\ wstr[s1 + 1] <= 57343
    THEN Decoded(65536 + (first_unit - 55296) * 1024 + (wstr[s1 + 1] - 56320), s1)
    ELSE Decoded(REPLACEMENT, s1)

get_code_point_(wstr, src, end) ==
    IF src >= end THEN Decoded(REPLACEMENT, src)
    ELSE
    LET first_unit == wstr[src + 1]
        s1 == src + 1
    IN
    IF first_unit < 55296 \/ first_unit > 57343 THEN Decoded(first_unit, s1)
    ELSE IF first_unit <= 56319 /\ s1 < end
            /\ wstr[s1 + 1] >= 56320 /\ wstr[s1 + 1] <= 57343
    THEN Decoded(65536 + (first_unit - 55296) * 1024 + (wstr[s1 + 1] - 56320), s1 + 1)
    ELSE Decoded(REPLACEMENT, s1)

RECURSIVE convert_wstring_string_loop(_, _, _, _)
convert_wstring_string_loop(wstr, src, dest, o) ==
    LET len == Len(wstr) IN
    IF src >= len THEN Converted(dest, o)
    ELSE LET d == get_code_point_(wstr, src, len)
             bytes == encode_(d.cp)
         IN  convert_wstring_string_loop(wstr, d.src, dest \o bytes,
                                         o \/ Len(dest) + Len(bytes) > len * 3)

convert_wstring_string(wstr) ==
    IF wstr = <<>> THEN Converted(<<>>, FALSE)
    ELSE convert_wstring_string_loop(wstr, 0, <<>>, FALSE)

RECURSIVE convert_u32string_string_loop(_, _, _, _)
convert_u32string_string_loop(u32str, src, dest, o) ==
    LET len == Len(u32str) IN
    IF src >= len THEN Converted(dest, o)
    ELSE LET bytes == encode_(u32str[src + 1])
         IN  convert_u32string_string_loop(u32str, src + 1, dest \o bytes,
                                           o \/ Len(dest) + Len(bytes) > len * 4)

convert_u32string_string(u32str) ==
    IF u32str = <<>> THEN Converted(<<>>, FALSE)
    ELSE convert_u32string_string_loop(u32str, 0, <<>>, FALSE)

\* The units pushed for one code point with the low surrogate built on the
\* high-surrogate base.
u32_unitsBadLow(ch) ==
    IF ch <= 65535 THEN
        IF ch >= 55296 /\ ch <= 57343 THEN <<REPLACEMENT>> ELSE <<ToWchar(ch)>>
    ELSE IF ch > 1114111 THEN <<REPLACEMENT>>
    ELSE LET c == ch - 65536
         IN  <<ToWchar(55296 + Shr(c, 10)), ToWchar(55296 + LoBits(c, 10))>>

\* units pushed for one code point, u32string -> wstring
u32_units(ch) ==
    IF ch <= 65535 THEN
        IF ch >= 55296 /\ ch <= 57343 THEN <<REPLACEMENT>> ELSE <<ToWchar(ch)>>
    ELSE IF ch > 1114111 THEN <<REPLACEMENT>>
    ELSE LET c == ch - 65536
         IN  <<ToWchar(55296 + Shr(c, 10)), ToWchar(56320 + LoBits(c, 10))>>

RECURSIVE convert_u32string_wstring_loop(_, _, _)
convert_u32string_wstring_loop(u32str, k, result) ==
    IF k >= Len(u32str) THEN result
    ELSE convert_u32string_wstring_loop(u32str, k + 1, result \o u32_units(u32str[k + 1]))

convert_u32string_wstring(u32str) ==
    IF u32str = <<>> THEN Converted(<<>>, FALSE)
    ELSE Converted(convert_u32string_wstring_loop(u32str, 0, <<>>), FALSE)

----------------------------------------------------------------------------
(* string_to_u32string of the header variants without UConverter: the      *)
(* validating conversion.  raised = TRUE stands for the thrown UException, *)
(* in which case nothing is returned.                                      *)

Thrown == [raised |-> TRUE, out |-> <<>>]
Returned(out) == [raised |-> FALSE, out |-> out]

RECURSIVE string_to_u32string_loop(_, _, _)
string_to_u32string_loop(utf8_str, i, u32str) ==
    LET size == Len(utf8_str) IN
    IF i >= size THEN Returned(u32str)
    ELSE
    LET ch == utf8_str[i + 1] IN
    IF ch <= 127 THEN string_to_u32string_loop(utf8_str, i + 1, Append(u32str, ch))
    ELSE IF ch > 191 /\ ch <= 223 THEN
        IF i + 1 >= size THEN Thrown
        ELSE LET ch2 == utf8_str[i + 2] IN
             IF ch2 < 128 \/ ch2 > 191 THEN Thrown
             ELSE string_to_u32string_loop(utf8_str, i + 2,
                      Append(u32str, LoBits(ch, 5) * 64 + LoBits(ch2, 6)))
    ELSE IF ch <= 239 THEN
        IF i + 2 >= size THEN Thrown
        ELSE LET ch2 == utf8_str[i + 2]
                 ch3 == utf8_str[i + 3]
                 codepoint == LoBits(ch, 4) * 4096 + LoBits(ch2, 6) * 64 + LoBits(ch3, 6)
             IN
             IF ch2 < 128 \/ ch2 > 191 \/ ch3 < 128 \/ ch3 > 191 THEN Thrown
             ELSE IF codepoint < 2048 \/ (codepoint >= 55296 /\ codepoint <= 57343) THEN Thrown
             ELSE string_to_u32string_loop(utf8_str, i + 3, Append(u32str, codepoint))
    ELSE IF ch <= 247 THEN
        IF i + 3 >= size THEN Thrown
        ELSE LET ch2 == utf8_str[i + 2]
                 ch3 == utf8_str[i + 3]
                 ch4 == utf8_str[i + 4]
                 codepoint == LoBits(ch, 3) * 262144 + LoBits(ch2, 6) * 4096
                              + LoBits(ch3, 6) * 64 + LoBits(ch4, 6)
             IN
             IF ch2 < 128 \/ ch2 > 191 \/ ch3 < 128 \/ ch3 > 191 \/ ch4 < 128 \/ ch4 > 191
             THEN Thrown
             ELSE IF codepoint < 65536 \/ codepoint > 1114111 THEN Thrown
             ELSE string_to_u32string_loop(utf8_str, i + 4, Append(u32str, codepoint))
    ELSE Thrown

string_to_u32string(utf8_str) == string_to_u32string_loop(utf8_str, 0, <<>>)

----------------------------------------------------------------------------
(* The conversions as operations: each applies one conversion, or the two  *)
(* conversions of a round trip, to an input and records the outcome.  The  *)
(* conversions are stateless, so a behaviour is one call on one input.     *)

ConvDone(name, a, m, r, t, u, o) ==
    /\ call' = name
    /\ arg' = a
    /\ mid' = m
    /\ ret' = r
    /\ raised' = t
    /\ used' = u
    /\ oob' = o
    /\ UNCHANGED <<readerVars, restVars>>

\* encode_ alone
Encode ==
    /\ call = "none"
    /\ \E cp \in CodePointSamples :
        ConvDone("encode_", <<cp>>, <<>>, encode_(cp), FALSE, 0, FALSE)

\* encode_ into a buffer, then decode_ over exactly the bytes written
EncodeDecode ==
    /\ call = "none"
    /\ \E cp \in CodePointSamples :
        LET bytes == encode_(cp)
            d == decode_(bytes, 0, Len(bytes))
        IN  ConvDone("encode_decode", <<cp>>, bytes, <<d.cp>>, FALSE, d.src, FALSE)

\* decode_(src, end) on the bytes of str from offset src, with end inside
\* str; the memory past end holds the rest of str and whatever follows it.
\* mid keeps the src and end of the call, used the src it leaves.
Decode ==
    /\ call = "none"
    /\ \E str \in ByteStrings :
        \E end \in 1..Len(str) :
            \E src \in 0..(end - 1) :
                LET d == decode_(str \o <<128, 128, 128>>, src, end)
                IN  ConvDone("decode_", str, <<src, end>>, <<d.cp>>, FALSE, d.src,
                             FALSE)

StringToWstring ==
    /\ call = "none"
    /\ \E str \in ByteStrings :
        LET r == convert_string_wstring(str)
        IN  ConvDone("string_wstring", str, <<>>, r.out, FALSE, 0, r.oob)

StringToU32string ==
    /\ call = "none"
    /\ \E str \in ByteStrings :
        LET r == convert_string_u32string(str)
        IN  ConvDone("string_u32string", str, <<>>, r.out, FALSE, 0, r.oob)

WstringToU32string ==
    /\ call = "none"
    /\ \E wstr \in UnitStrings :
        LET r == convert_wstring_u32string(wstr)
        IN  ConvDone("wstring_u32string", wstr, <<>>, r.out, FALSE, 0, r.oob)

WstringToString ==
    /\ call = "none"
    /\ \E wstr \in UnitStrings :
        LET r == convert_wstring_string(wstr)
        IN  ConvDone("wstring_string", wstr, <<>>, r.out, FALSE, 0, r.oob)

U32stringToString ==
    /\ call = "none"
    /\ \E u32str \in CpStrings :
        LET r == convert_u32string_string(u32str)
        IN  ConvDone("u32string_string", u32str, <<>>, r.out, FALSE, 0, r.oob)

U32stringToWstring ==
    /\ call = "none"
    /\ \E u32str \in CpStrings :
        LET r == convert_u32string_wstring(u32str)
        IN  ConvDone("u32string_wstring", u32str, <<>>, r.out, FALSE, 0, r.oob)

\* u32string -> wstring -> u32string
RoundTrip32 ==
    /\ call = "none"
    /\ \E u32str \in CpStrings :
        LET w == convert_u32string_wstring(u32str)
            r == convert_wstring_u32string(w.out)
        IN  ConvDone("u32_w_u32", u32str, w.out, r.out, FALSE, 0, w.oob \/ r.oob)

\* string -> wstring -> string
RoundTrip8 ==
    /\ call = "none"
    /\ \E str \in ByteStrings :
        LET w == convert_string_wstring(str)
            r == convert_wstring_string(w.out)
        IN  ConvDone("s_w_s", str, w.out, r.out, FALSE, 0, w.oob \/ r.oob)

\* the validating conversion
StrictStringToU32string ==
    /\ call = "none"
    /\ \E str \in ByteStrings :
        LET r == string_to_u32string(str)
        IN  ConvDone("string_to_u32string", str, <<>>, r.out, r.raised, 0, FALSE)

\* UTF8ConsoleOutput(): should_flush = false, nothing written yet.
\* pending holds the bytes written to the stream since the last fflush,
\* flushed tells whether the last operation called fflush.
OutputFresh ==
    [should_flush |-> FALSE, pending |-> <<>>, flushed |-> FALSE, op |-> "none"]

\* The process before the constructor of utf8_console_instance has run, in a
\* console whose input and output code pages are cp and output_cp (0 stands
\* for "no console": GetConsoleCP fails).  first_cp and first_output_cp
\* keep the code pages the process found.
ConsoleBefore(cp, output_cp) ==
    [old_cp |-> 0, old_output_cp |-> 0, cp |-> cp, output_cp |-> output_cp,
     first_cp |-> cp, first_output_cp |-> output_cp, phase |-> "before"]

\* FastString(): data_ = nullptr, size_ = 0, capacity_ = 0.  data holds the
\* bytes data_[0 .. size_ - 1]; written_past tells whether a write went to
\* an index >= capacity_; arg is the argument of the constructor.
FastStringFresh ==
    [size_ |-> 0, capacity_ |-> 0, data |-> <<>>, written_past |-> FALSE,
     arg |-> <<>>, op |-> "none"]

\* The std::string-buffered UTF8ConsoleInput on the source src: pos = 0, an
\* empty buffer.  word is what the last readWord returned and first the
\* buffer index of its first byte; before is the index just past the last
\* byte the calls before the last one returned; eof tells whether get() has
\* returned EOF so far, eof_before whether it had when the last call
\* started; calls counts the readWord calls up to two.
Input2Fresh(src) ==
    [buffer |-> <<>>, pos |-> 0, stdin |-> src, word |-> <<>>, first |-> 0,
     before |-> 0, eof |-> FALSE, eof_before |-> FALSE, calls |-> 0]

InitRest ==
    /\ ucout = OutputFresh
    /\ utf8_console_instance = ConsoleBefore(0, 0)
    /\ fast_string = FastStringFresh
    /\ ucin2 = Input2Fresh(<<>>)

InitConv ==
    /\ call = "none"
    /\ arg = <<>>
    /\ mid = <<>>
    /\ ret = <<>>
    /\ raised = FALSE
    /\ used = 0
    /\ oob = FALSE

InitReaderIdle ==
    /\ stdin = <<>>
    /\ buffer = <<>>
    /\ pos = 0
    /\ pc = "idle"
    /\ line = <<>>
    /\ lines = <<>>
    /\ empty_break = FALSE
    /\ break_word = -1
    /\ lastop = "none"
    /\ word = <<>>
    /\ value = 0
    /\ fault = FALSE
    /\ chunk_size = chunkSize
    /\ entry = <<>>
    /\ ref = [buffer |-> <<>>, pos |-> 0, stdin |-> <<>>, fault |-> FALSE,
              chunk |-> chunkSize]
    /\ refword = <<>>

ConvInit == InitConv /\ InitReaderIdle /\ InitRest

ConvNext ==
    \/ Encode
    \/ EncodeDecode
    \/ Decode
    \/ StringToWstring
    \/ StringToU32string
    \/ WstringToU32string
    \/ WstringToString
    \/ U32stringToString
    \/ U32stringToWstring
    \/ RoundTrip32
    \/ RoundTrip8
    \/ StrictStringToU32string

SpecConv == ConvInit /\ [][ConvNext]_vars

----------------------------------------------------------------------------
(* FastString, as the sequence of bytes it holds                           *)

\* FastString::push_back ignores the NUL byte
push_back(fs, c) == IF c = 0 THEN fs ELSE Append(fs, c)

\* FastString::append(const FastString&)
append(fs, other) == IF Len(other) = 0 THEN fs ELSE fs \o other

\* FastString::operator[] : throws when index >= size_
at(fs, index) ==
    IF index >= Len(fs) THEN [thrown |-> TRUE, c |-> 0]
    ELSE [thrown |-> FALSE, c |-> fs[index + 1]]

----------------------------------------------------------------------------
(* UTF8ConsoleInput.  char is signed: a byte b >= 128 held in a char has   *)
(* the value b - 256, so the byte 0xFF equals EOF (-1).  A char is kept    *)
(* here as its byte value and EOFc is the byte value of (char)EOF.         *)

EOFc == 255

\* value of a char after promotion to int
AsInt(ch) == IF ch >= 128 THEN ch - 256 ELSE ch

\* A whitespace test that does not know the tab.
is_whitespace_NoTab(ch) ==
    ch = 32 \/ ch = 10 \/ ch = 13 \/ ch = 12 \/ ch = 11

is_whitespace_(ch) ==
    ch = 32 \/ ch = 9 \/ ch = 10 \/ ch = 13 \/ ch = 12 \/ ch = 11

\* comparison "pos >= buffer.size()": the int is converted to size_t
PosAtEnd(p, size) == p < 0 \/ p >= size

\* fill_buffer_ : src is what stdin still holds; the result tells whether
\* the refill succeeded, the chunk to append and what stdin holds afterwards
\* (n is the value of chunkSize)
RECURSIVE fill_loop(_, _, _, _)
fill_loop(src, i, chunk, n) ==
    IF i >= n \/ src = <<>>
    THEN [ok |-> chunk # <<>>, chunk |-> chunk, src |-> src]
    ELSE LET ch == Head(src) IN
         IF ch = EOFc THEN [ok |-> FALSE, chunk |-> <<>>, src |-> Tail(src)]
         ELSE IF ch = 10
         THEN [ok |-> TRUE, chunk |-> push_back(chunk, ch), src |-> Tail(src)]
         ELSE fill_loop(Tail(src), i + 1, push_back(chunk, ch), n)

fill_buffer_(src, n) == fill_loop(src, 0, <<>>, n)

\* The reader's fields together with the source and the chunk size, as one
\* record
Reader(buf, p, src, f, n) ==
    [buffer |-> buf, pos |-> p, stdin |-> src, fault |-> f, chunk |-> n]

\* result of get(): the char returned and the reader afterwards
Got(ch, r) == [ch |-> ch, r |-> r]

\* get(), "return buffer[pos++]"
get_indexed(r, a) ==
    IF a.thrown THEN Got(EOFc, [r EXCEPT !.fault = TRUE])
    ELSE Got(a.c, [r EXCEPT !.pos = @ + 1])

\* get(), the second "pos >= buffer.size()" test and the indexing
get_checked(r) ==
    IF PosAtEnd(r.pos, Len(r.buffer)) THEN Got(EOFc, r)
    ELSE get_indexed(r, at(r.buffer, r.pos))

\* get(), after fill_buffer_ returned f
get_refilled(r, f) ==
    IF ~f.ok THEN Got(EOFc, [r EXCEPT !.stdin = f.src])
    ELSE get_checked([r EXCEPT !.buffer = append(@, f.chunk), !.stdin = f.src])

\* get()
get(r) ==
    IF PosAtEnd(r.pos, Len(r.buffer)) THEN get_refilled(r, fill_buffer_(r.stdin, r.chunk))
    ELSE get_checked(r)

\* readWord, first loop: skip leading whitespace; g is what get() returned
RECURSIVE readWord_skip(_)
readWord_skip(g) ==
    IF ~g.r.fault /\ g.ch # EOFc /\ is_whitespace_(g.ch) THEN readWord_skip(get(g.r))
    ELSE g

\* The step back taken whatever get() returned.
readWord_ungetAlways(g) == [g.r EXCEPT !.pos = @ - 1]

\* readWord, "if (ch != EOF) pos--" after the first loop
readWord_unget(g) == IF g.ch # EOFc THEN [g.r EXCEPT !.pos = @ - 1] ELSE g.r

\* result of readWord and readLine: the reader afterwards and the string
Read(r, result) == [r |-> r, result |-> result]

\* The ending of std::cin: the terminating byte is put back even when it
\* is a line-feed.
readWord_finishCin(g, result) ==
    IF ~g.r.fault /\ g.ch # EOFc
    THEN Read([g.r EXCEPT !.pos = @ - 1], result)
    ELSE Read(g.r, result)

\* readWord, "if (ch != EOF && ch != '\n') pos--" and the return
readWord_finish(g, result) ==
    IF ~g.r.fault /\ g.ch # EOFc /\ g.ch # 10
    THEN Read([g.r EXCEPT !.pos = @ - 1], result)
    ELSE Read(g.r, result)

\* readWord, second loop: collect the word; g is what get() returned
RECURSIVE readWord_collect(_, _)
readWord_collect(g, result) ==
    IF ~g.r.fault /\ g.ch # EOFc /\ ~is_whitespace_(g.ch)
    THEN readWord_collect(get(g.r), push_back(result, g.ch))
    ELSE readWord_finish(g, result)

\* readWord, from the end of the first loop on
readWord_rest(g) ==
    IF g.r.fault THEN Read(g.r, <<>>)
    ELSE readWord_collect(get(readWord_unget(g)), <<>>)

\* readWord<std::string>
readWord(r) == readWord_rest(readWord_skip(get(r)))

\* A loop body that keeps the carriage return.
readLine_keepCR(result, ch) == push_back(result, ch)

\* readLine, the loop body: "if (ch != '\r') result += ch"
readLine_keep(result, ch) == IF ch # 13 THEN push_back(result, ch) ELSE result

\* readLine<std::string>, the loop; g is what get() returned
RECURSIVE readLine_loop(_, _)
readLine_loop(g, result) ==
    IF ~g.r.fault /\ g.ch # EOFc /\ g.ch # 10
    THEN readLine_loop(get(g.r), readLine_keep(result, g.ch))
    ELSE Read(g.r, result)

readLine(r) == readLine_loop(get(r), <<>>)

\* std::stoi on a token (base 10; a token holds no whitespace): an optional
\* sign, then the value of the digits that follow; a thrown
\* std::invalid_argument when no digit follows, a thrown std::out_of_range
\* when the value does not fit an int.  stoi_digits accumulates with the
\* sign sgn applied and returns [over |-> TRUE] outside INT_MIN..INT_MAX.
RECURSIVE stoi_digits(_, _, _, _)
stoi_digits(token, k, acc, sgn) ==
    IF k > Len(token) \/ token[k] < 48 \/ token[k] > 57
    THEN [over |-> FALSE, value |-> acc]
    ELSE IF \/ acc > 214748364 \/ acc < -214748364
            \/ (acc = 214748364 /\ token[k] - 48 > 7)
            \/ (acc = -214748364 /\ token[k] - 48 > 8)
    THEN [over |-> TRUE, value |-> 0]
    ELSE stoi_digits(token, k + 1, acc * 10 + sgn * (token[k] - 48), sgn)

stoi_ranged(v) ==
    IF v.over THEN [thrown |-> TRUE, value |-> 0]
    ELSE [thrown |-> FALSE, value |-> v.value]

stoi_signed(token, k, sgn) ==
    IF k > Len(token) \/ token[k] < 48 \/ token[k] > 57
    THEN [thrown |-> TRUE, value |-> 0]
    ELSE stoi_ranged(stoi_digits(token, k, 0, sgn))

stoi(token) ==
    IF token = <<>> THEN [thrown |-> TRUE, value |-> 0]
    ELSE IF token[1] = 45 THEN stoi_signed(token, 2, -1)
    ELSE IF token[1] = 43 THEN stoi_signed(token, 2, 1)
    ELSE stoi_signed(token, 1, 1)

----------------------------------------------------------------------------
(* The reader's operations.  The caller is single-threaded, so an          *)
(* operation starts only when no other is running (pc = "idle").           *)
(* readLines may run for ever, so it advances one loop iteration at a time.*)

MaxInput == 3      \* longest source explored exhaustively

\* space, LF, CR, 'a', '1', NUL and 0xFF
ReaderBytes == {32, 10, 13, 97, 49, 0, 255}
ShortInputs == SeqsUpTo(ReaderBytes, MaxInput)

\* Longer sources, explored one by one:
\*   "  hello   world\n"   "abc\r\ndef"   "a\nb\n\nc\n"   "a\nb\n"
\*   "a b\ncd\n"   "a\tb\vc\fd"   "x 12\n"   "3000000000 7\n"   "\xC3\xA9\n"
\*   "-5 -\n"
ExampleInputs ==
    { <<32, 32, 104, 101, 108, 108, 111, 32, 32, 32, 119, 111, 114, 108, 100, 10>>,
      <<97, 98, 99, 13, 10, 100, 101, 102>>,
      <<97, 10, 98, 10, 10, 99, 10>>,
      <<97, 10, 98, 10>>,
      <<97, 32, 98, 10, 99, 100, 10>>,
      <<97, 9, 98, 11, 99, 12, 100>>,
      <<120, 32, 49, 50, 10>>,
      <<51, 48, 48, 48, 48, 48, 48, 48, 48, 48, 32, 55, 10>>,
      <<195, 169, 10>>,
      <<45, 53, 32, 45, 10>> }

Inputs == ShortInputs \cup ExampleInputs

\* break_word arguments: EOF (the default), a byte of the input ('a') and
\* a byte that never occurs (';')
BreakWords == {-1, 97, 59}

Self == Reader(buffer, pos, stdin, fault, chunk_size)

\* what the reader r has still to deliver: the unconsumed part of its
\* buffer, then what the source still holds
Unread(r) == SubSeq(r.buffer, r.pos + 1, Len(r.buffer)) \o r.stdin

Becomes(r) ==
    /\ buffer' = r.buffer
    /\ pos' = r.pos
    /\ stdin' = r.stdin
    /\ fault' = r.fault

\* the locals, arguments and result of an earlier readLines call are gone
NoReadLines ==
    /\ line' = <<>>
    /\ lines' = <<>>
    /\ empty_break' = FALSE
    /\ break_word' = -1
    /\ entry' = <<>>

GetDone(g) ==
    /\ Becomes(g.r)
    /\ word' = <<g.ch>>
    /\ lastop' = "get"
    /\ NoReadLines
    /\ UNCHANGED <<pc, value>>
    /\ UNCHANGED <<convVars, refVars, restVars>>

Get ==
    /\ pc = "idle"
    /\ GetDone(get(Self))

ReadDone(name, w) ==
    /\ Becomes(w.r)
    /\ word' = w.result
    /\ lastop' = name
    /\ NoReadLines
    /\ UNCHANGED <<pc, value>>
    /\ UNCHANGED <<convVars, refVars, restVars>>

ReadWord ==
    /\ pc = "idle"
    /\ ReadDone("readWord", readWord(Self))

ReadLine ==
    /\ pc = "idle"
    /\ ReadDone("readLine", readLine(Self))

\* operator>>(int&): a failed parse stores 0 in the target.
extract_valueZero(old, token, parsed) ==
    IF token = <<>> THEN old ELSE IF parsed.thrown THEN 0 ELSE parsed.value

\* operator>>(int&): the target after the extraction; an empty token
\* returns early and a thrown std::exception is caught before the assignment
extract_value(old, token, parsed) ==
    IF token = <<>> \/ parsed.thrown THEN old ELSE parsed.value

\* operator>>(int&), after readWord returned w
ExtractDone(w, parsed) ==
    /\ Becomes(w.r)
    /\ word' = w.result
    /\ value' = extract_value(value, w.result, parsed)
    /\ lastop' = "operator>>"
    /\ NoReadLines
    /\ UNCHANGED pc
    /\ UNCHANGED <<convVars, refVars, restVars>>

ExtractParse(w) == ExtractDone(w, stoi(w.result))

\* operator>>(int&)
Extract ==
    /\ pc = "idle"
    /\ ExtractParse(readWord(Self))

\* clear() that resets the cursor only.
clearKeepBuffer(r) == [r EXCEPT !.pos = 0]

\* clear(): pos = 0; buffer.release()
clear(r) == [r EXCEPT !.pos = 0, !.buffer = <<>>]

Clear ==
    /\ pc = "idle"
    /\ Becomes(clear(Self))
    /\ lastop' = "clear"
    /\ word' = <<>>
    /\ NoReadLines
    /\ UNCHANGED <<pc, value>>
    /\ UNCHANGED <<convVars, refVars, restVars>>

\* readLines<std::string>(empty_break, break_word) is entered
ReadLinesCall ==
    /\ pc = "idle"
    /\ \E eb \in BOOLEAN, bw \in BreakWords :
        /\ empty_break' = eb
        /\ break_word' = bw
    /\ pc' = "readLines"
    /\ line' = <<>>
    /\ lines' = <<>>
    /\ entry' = Unread(Self)
    /\ lastop' = "readLines"
    /\ word' = <<>>
    /\ UNCHANGED <<stdin, buffer, pos, fault, value>>
    /\ UNCHANGED <<convVars, refVars, restVars>>

\* readLines returns (break, or an exception leaves the loop)
ReadLinesReturn ==
    /\ pc' = "idle"
    /\ UNCHANGED lastop

\* readLines that records empty lines whatever empty_break is.
readLines_stopNever(eb, ln) == FALSE

\* readLines, "if (empty_break && line.empty()) break"
readLines_stop(eb, ln) == eb /\ ln = <<>>

\* readLines, "line.push_back(ch)".  A call that returns pushes at most one
\* byte per byte of the input it began with, so a line that has outgrown
\* that input by two bytes belongs to a call that never returns: it is
\* started over, which keeps the lines of such a call finitely many.
readLines_push(ln, ch, unread) ==
    IF Len(ln) >= Len(unread) + 2 THEN push_back(<<>>, ch) ELSE push_back(ln, ch)

\* the body of the while (true) loop of readLines, g being what get() returned
ReadLinesBody(g) ==
    /\ Becomes(g.r)
    /\ IF g.r.fault
       THEN ReadLinesReturn /\ UNCHANGED <<line, lines>>
       ELSE IF g.ch = 13
       THEN UNCHANGED <<pc, line, lines, lastop>>
       ELSE IF g.ch = 10 \/ AsInt(g.ch) = break_word
       THEN IF readLines_stop(empty_break, line)
            THEN ReadLinesReturn /\ UNCHANGED <<line, lines>>
            ELSE /\ lines' = Append(lines, line)
                 /\ line' = <<>>
                 /\ IF AsInt(g.ch) = break_word
                    THEN ReadLinesReturn
                    ELSE UNCHANGED <<pc, lastop>>
       ELSE /\ line' = readLines_push(line, g.ch, entry)
            /\ UNCHANGED <<pc, lines, lastop>>
    /\ UNCHANGED <<empty_break, break_word, entry, word, value>>
    /\ UNCHANGED <<convVars, refVars, restVars>>

\* one iteration of the while (true) loop of readLines
ReadLinesStep ==
    /\ pc = "readLines"
    /\ ReadLinesBody(get(Self))

\* the reader before its first operation
ReaderFresh ==
    /\ buffer = <<>>
    /\ pos = 0
    /\ pc = "idle"
    /\ line = <<>>
    /\ lines = <<>>
    /\ empty_break = FALSE
    /\ break_word = -1
    /\ lastop = "none"
    /\ word = <<>>
    /\ value = 0
    /\ fault = FALSE
    /\ entry = <<>>
    /\ refword = <<>>

ReaderInit ==
    /\ InitConv
    /\ InitRest
    /\ stdin \in Inputs
    /\ ReaderFresh
    /\ chunk_size = chunkSize
    /\ ref = Reader(<<>>, 0, <<>>, FALSE, chunkSize)

ReaderNext ==
    \/ Get
    \/ ReadWord
    \/ ReadLine
    \/ Extract
    \/ Clear
    \/ ReadLinesCall
    \/ ReadLinesStep

SpecReader == ReaderInit /\ [][ReaderNext]_vars

\* A call that is running goes on running: the loop of readLines takes its
\* next iteration.  Termination is explored on the sources of up to
\* MaxLiveInput bytes.
MaxLiveInput == 2

LiveInit ==
    /\ ReaderInit
    /\ Len(stdin) <= MaxLiveInput

SpecReaderLive == LiveInit /\ [][ReaderNext]_vars /\ WF_vars(ReadLinesStep)

----------------------------------------------------------------------------
(* The reader with a small chunk size, next to a reader of the same source *)
(* whose fill_buffer_ is never cut short by the chunk size, so that every  *)
(* refill delivers the input up to the next line-feed.                     *)

MaxChunk == 2

\* a chunk size no refill of src reaches
WholeLine(src) == Len(src) + 1

ChunkDone(name, w, rw) ==
    /\ Becomes(w.r)
    /\ word' = w.result
    /\ ref' = rw.r
    /\ refword' = rw.result
    /\ lastop' = name
    /\ NoReadLines
    /\ UNCHANGED <<pc, value, chunk_size>>
    /\ UNCHANGED <<convVars, restVars>>

ChunkReadWord ==
    /\ pc = "idle"
    /\ ChunkDone("readWord", readWord(Self), readWord(ref))

ChunkReadLine ==
    /\ pc = "idle"
    /\ ChunkDone("readLine", readLine(Self), readLine(ref))

ChunkInit ==
    /\ InitConv
    /\ InitRest
    /\ stdin \in ShortInputs
    /\ ReaderFresh
    /\ chunk_size \in 1..MaxChunk
    /\ ref = Reader(<<>>, 0, stdin, FALSE, WholeLine(stdin))

ChunkNext ==
    \/ ChunkReadWord
    \/ ChunkReadLine

SpecChunk == ChunkInit /\ [][ChunkNext]_vars

----------------------------------------------------------------------------
(* The decoded read operations of the header variants that define          *)
(* string_to_u32string: the 8-bit result is read by the same code as       *)
(* above, then converted.  Each is applied once, to a fresh reader whose   *)
(* source holds one token followed by a line-feed.                         *)

DecodedConv(name, src, token, r) ==
    ConvDone(name, src, token, r.out, r.raised, 0, FALSE)

DecodedDone(name, src, w) ==
    DecodedConv(name, src, w.result, string_to_u32string(w.result))

\* readWord<std::u32string>
ReadWordU32string ==
    /\ call = "none"
    /\ \E str \in ByteStrings :
        DecodedDone("readWord_u32string", str \o <<10>>,
                    readWord(Reader(<<>>, 0, str \o <<10>>, FALSE, chunkSize)))

\* readLine<std::u32string>
ReadLineU32string ==
    /\ call = "none"
    /\ \E str \in ByteStrings :
        DecodedDone("readLine_u32string", str \o <<10>>,
                    readLine(Reader(<<>>, 0, str \o <<10>>, FALSE, chunkSize)))

DecodedNext ==
    \/ ReadWordU32string
    \/ ReadLineU32string

SpecDecoded == ConvInit /\ [][DecodedNext]_vars

----------------------------------------------------------------------------
(* UTF8ConsoleOutput: the writer.  Every operator<< ends in writes_.       *)

MaxPending == 5
OutBytes == {97, 10}
OutStrings == {<<>>, <<97>>, <<10>>, <<97, 97>>, <<97, 10>>}

\* writes_(str, len): fwrite(str, 1, len, stream) and nothing else;
\* should_flush is not read.
writes_(o, str) ==
    [o EXCEPT !.pending = @ \o str, !.flushed = FALSE, !.op = "operator<<"]

\* flush(): fflush(stream).
flush(o) == [o EXCEPT !.pending = <<>>, !.flushed = TRUE, !.op = "flush"]

\* setAutoFlush(auto_flush): should_flush = auto_flush.
setAutoFlush(o, auto_flush) ==
    [o EXCEPT !.should_flush = auto_flush, !.flushed = FALSE,
              !.op = "setAutoFlush"]

\* uendl(out): fputc('\n', stream); fflush(stream).
uendl(o) == [o EXCEPT !.pending = <<>>, !.flushed = TRUE, !.op = "uendl"]

\* uflush(out): fflush(stream).
uflush(o) == [o EXCEPT !.pending = <<>>, !.flushed = TRUE, !.op = "uflush"]

OutputDone(o) ==
    /\ ucout' = o
    /\ UNCHANGED <<convVars, readerVars, utf8_console_instance, fast_string,
                   ucin2>>

\* ucout.setAutoFlush(b)
SetAutoFlush == \E b \in BOOLEAN : OutputDone(setAutoFlush(ucout, b))

\* ucout << str, for a std::string
InsertString ==
    \E str \in OutStrings :
        /\ Len(ucout.pending) + Len(str) <= MaxPending
        /\ OutputDone(writes_(ucout, str))

\* ucout << ch, for a char
InsertChar ==
    \E ch \in OutBytes :
        /\ Len(ucout.pending) + 1 <= MaxPending
        /\ OutputDone(writes_(ucout, <<ch>>))

\* ucout << truth, for a bool: "true" or "false"
InsertBool ==
    \E truth \in BOOLEAN :
        LET text == IF truth THEN <<116, 114, 117, 101>>
                    ELSE <<102, 97, 108, 115, 101>>
        IN /\ Len(ucout.pending) + Len(text) <= MaxPending
           /\ OutputDone(writes_(ucout, text))

\* ucout.flush()
Flush == OutputDone(flush(ucout))

\* ucout << uendl
InsertUendl == OutputDone(uendl(ucout))

\* ucout << uflush
InsertUflush == OutputDone(uflush(ucout))

OutputInit == InitConv /\ InitReaderIdle /\ InitRest

OutputNext ==
    \/ SetAutoFlush
    \/ InsertString
    \/ InsertChar
    \/ InsertBool
    \/ Flush
    \/ InsertUendl
    \/ InsertUflush

SpecOutput == OutputInit /\ [][OutputNext]_vars

----------------------------------------------------------------------------
(* UTF8Console: the static object that switches the console to UTF-8.      *)

CP_UTF8 == 65001
CodePages == {0, 437, 850, 936, 1252, CP_UTF8}

\* SetConsoleCP / SetConsoleOutputCP: fails (and changes nothing) when the
\* process has no console.
SetConsoleCP(c, wCodePageID) ==
    IF c.cp = 0 THEN c ELSE [c EXCEPT !.cp = wCodePageID]
SetConsoleOutputCP(c, wCodePageID) ==
    IF c.output_cp = 0 THEN c ELSE [c EXCEPT !.output_cp = wCodePageID]

\* UTF8Console(): saves both code pages, then sets each one that is not
\* UTF-8 already.
UTF8Console(c) ==
    LET saved == [c EXCEPT !.old_cp = c.cp, !.old_output_cp = c.output_cp]
        input == IF saved.old_cp # CP_UTF8 THEN SetConsoleCP(saved, CP_UTF8)
                 ELSE saved
    IN IF input.old_output_cp # CP_UTF8
       THEN SetConsoleOutputCP(input, CP_UTF8)
       ELSE input

\* ~UTF8Console(): restores each code page that was saved and was not UTF-8.
UTF8ConsoleDtor(c) ==
    LET input == IF c.old_cp # 0 /\ c.old_cp # CP_UTF8
                 THEN SetConsoleCP(c, c.old_cp)
                 ELSE c
    IN IF input.old_output_cp # 0 /\ input.old_output_cp # CP_UTF8
       THEN SetConsoleOutputCP(input, input.old_output_cp)
       ELSE input

ConsoleDone(c, phase) ==
    /\ utf8_console_instance' = [c EXCEPT !.phase = phase]
    /\ UNCHANGED <<convVars, readerVars, ucout, fast_string, ucin2>>

\* Static initialisation constructs utf8_console_instance before main runs.
ConsoleConstruct ==
    /\ utf8_console_instance.phase = "before"
    /\ ConsoleDone(UTF8Console(utf8_console_instance), "running")

\* main returns or std::exit is called: the destructors of the objects of
\* static storage duration run.
ConsoleExit ==
    /\ utf8_console_instance.phase = "running"
    /\ ConsoleDone(UTF8ConsoleDtor(utf8_console_instance), "exited")

\* An exception leaves main (the reader's std::stoi rethrow, operator[] of
\* FastString, a strict conversion) or std::abort / std::quick_exit is
\* called: std::terminate ends the process and no destructor of a static
\* object runs.
ConsoleTerminate ==
    /\ utf8_console_instance.phase = "running"
    /\ ConsoleDone(utf8_console_instance, "terminated")

ConsoleInit ==
    /\ InitConv
    /\ InitReaderIdle
    /\ ucout = OutputFresh
    /\ fast_string = FastStringFresh
    /\ ucin2 = Input2Fresh(<<>>)
    /\ \E cp \in CodePages, output_cp \in CodePages :
        utf8_console_instance = ConsoleBefore(cp, output_cp)

ConsoleNext ==
    \/ ConsoleConstruct
    \/ ConsoleExit
    \/ ConsoleTerminate

SpecConsole == ConsoleInit /\ [][ConsoleNext]_vars

----------------------------------------------------------------------------
(* FastString: the fields size_ and capacity_, the bytes held and the      *)
(* index of every write.  data_ is allocated exactly when capacity_ > 0.   *)

default_capacity == 256
MaxSize == 300
FsStrings == {<<>>, <<97>>, <<97, 98>>, <<97, 98, 99>>}
AppendLengths == {0, 1, 2, 100, 255}
ReserveSizes == {1, 300}

\* len bytes 'a'
Letters(len) == [i \in 1..len |-> 97]

\* grow_(min_capacity): 1.5 times the capacity, at least min_capacity and
\* at least default_capacity; the bytes held are kept.
fs_grow_(f, min_capacity) ==
    LET grown == f.capacity_ + f.capacity_ \div 2
        wanted == IF grown < min_capacity THEN min_capacity ELSE grown
    IN  [f EXCEPT !.capacity_ = IF wanted < default_capacity
                                 THEN default_capacity ELSE wanted]

\* a write to data_[index]
fs_written(f, index) ==
    [f EXCEPT !.written_past = @ \/ index >= f.capacity_]

\* FastString(const char* str): data_[size_] = '\0' runs before size_ = len,
\* so the terminator goes to index 0.
fs_FastString(f, str) ==
    LET len == Len(str)
        g == fs_grow_(f, len + 1)
        copied == fs_written(g, len - 1)
        ended == fs_written(copied, copied.size_)
    IN  IF len = 0 THEN [f EXCEPT !.arg = str, !.op = "FastString"]
        ELSE [ended EXCEPT !.data = <<0>> \o Tail(str), !.size_ = len,
                           !.arg = str, !.op = "FastString"]

\* push_back(c), "data_[size_++] = c; data_[size_] = '\0'"
fs_push_back_store(f, c) ==
    LET stored == fs_written(f, f.size_)
    IN  fs_written([stored EXCEPT !.data = Append(@, c), !.size_ = @ + 1],
                   f.size_ + 1)

\* push_back(c)
fs_push_back(f, c) ==
    IF c = 0 THEN [f EXCEPT !.op = "push_back"]
    ELSE LET g == IF f.size_ >= f.capacity_ THEN fs_grow_(f, f.size_ + 1) ELSE f
         IN  [fs_push_back_store(g, c) EXCEPT !.op = "push_back"]

\* append(const char* str, size_t len)
fs_append(f, str) ==
    LET len == Len(str)
        g == IF f.size_ + len >= f.capacity_ THEN fs_grow_(f, f.size_ + len + 1)
             ELSE f
        copied == fs_written(g, g.size_ + len - 1)
    IN  IF len <= 0 THEN [f EXCEPT !.op = "append"]
        ELSE [fs_written(copied, copied.size_ + len)
                 EXCEPT !.data = @ \o str, !.size_ = @ + len, !.op = "append"]

\* clear(): size_ = 0, the allocation stays
fs_clear(f) == [f EXCEPT !.size_ = 0, !.data = <<>>, !.op = "clear"]

\* release()
fs_release(f) ==
    [f EXCEPT !.size_ = 0, !.capacity_ = 0, !.data = <<>>, !.op = "release"]

\* reserve(new_capacity)
fs_reserve(f, new_capacity) ==
    IF new_capacity <= f.capacity_ THEN [f EXCEPT !.op = "reserve"]
    ELSE [fs_grow_(f, new_capacity) EXCEPT !.op = "reserve"]

\* to_string(): {data_, size_}
fs_to_string(f) == f.data

FsDone(f) ==
    /\ fast_string' = f
    /\ UNCHANGED <<convVars, readerVars, ucout, utf8_console_instance, ucin2>>

\* FastString s(str);
FsConstruct ==
    /\ fast_string.op = "none"
    /\ \E str \in FsStrings : FsDone(fs_FastString(fast_string, str))

FsPushBack ==
    /\ fast_string.size_ < MaxSize
    /\ \E c \in {97, 0} : FsDone(fs_push_back(fast_string, c))

FsAppend ==
    \E len \in AppendLengths :
        /\ fast_string.size_ + len <= MaxSize
        /\ FsDone(fs_append(fast_string, Letters(len)))

FsClear == FsDone(fs_clear(fast_string))

FsRelease == FsDone(fs_release(fast_string))

FsReserve ==
    \E new_capacity \in ReserveSizes :
        FsDone(fs_reserve(fast_string, new_capacity))

FsInit == InitConv /\ InitReaderIdle /\ InitRest

FsNext ==
    \/ FsConstruct
    \/ FsPushBack
    \/ FsAppend
    \/ FsClear
    \/ FsRelease
    \/ FsReserve

SpecFastString == FsInit /\ [][FsNext]_vars

----------------------------------------------------------------------------
(* UTF8ConsoleInput of the header variant that buffers in a std::string:   *)
(* int pos, int get(), and a readWord that also skips the whitespace after *)
(* the word.  EOF is the int -1; a byte read from the buffer is a char     *)
(* converted to int.                                                       *)

MaxInput2 == 3
MaxBelow == 3
Inputs2 == SeqsUpTo({32, 10, 97, 0, 255}, MaxInput2)

is_whitespace(ch) ==
    ch = 32 \/ ch = 9 \/ ch = 10 \/ ch = 13 \/ ch = 12 \/ ch = 11

\* fillBuffer(): the loop; std::string::push_back keeps every byte
RECURSIVE fillBuffer_loop(_, _, _)
fillBuffer_loop(src, i, chunk) ==
    IF i >= chunkSize \/ src = <<>>
    THEN [ok |-> chunk # <<>>, chunk |-> chunk, src |-> src]
    ELSE LET ch == Head(src) IN
         IF ch = EOFc THEN [ok |-> FALSE, chunk |-> <<>>, src |-> Tail(src)]
         ELSE IF ch = 10
         THEN [ok |-> TRUE, chunk |-> Append(chunk, ch), src |-> Tail(src)]
         ELSE fillBuffer_loop(Tail(src), i + 1, Append(chunk, ch))

\* fillBuffer() applied to the reader r
fillBuffer(r) ==
    LET f == fillBuffer_loop(r.stdin, 0, <<>>)
    IN  [ok |-> f.ok,
         r |-> [r EXCEPT !.buffer = @ \o f.chunk, !.stdin = f.src]]

\* int get(): the char and the reader afterwards; a get() that returns EOF
\* is remembered in r.eof
get_int(r) ==
    LET f == IF PosAtEnd(r.pos, Len(r.buffer)) THEN fillBuffer(r)
             ELSE [ok |-> TRUE, r |-> r]
    IN  IF ~f.ok \/ PosAtEnd(f.r.pos, Len(f.r.buffer))
        THEN Got(-1, [f.r EXCEPT !.eof = TRUE])
        ELSE Got(AsInt(f.r.buffer[f.r.pos + 1]), [f.r EXCEPT !.pos = @ + 1])

\* readWord, first loop: skip the leading whitespace
RECURSIVE readWord2_skip(_)
readWord2_skip(g) ==
    IF g.ch # -1 /\ is_whitespace(g.ch) THEN readWord2_skip(get_int(g.r))
    ELSE g

\* readWord, "if (ch != EOF) pos--"
readWord2_unget(g) ==
    IF g.ch # -1 THEN [g.r EXCEPT !.pos = @ - 1] ELSE g.r

\* readWord, second loop: collect the word
RECURSIVE readWord2_collect(_, _)
readWord2_collect(g, result) ==
    IF g.ch # -1 /\ ~is_whitespace(g.ch)
    THEN readWord2_collect(get_int(g.r), Append(result, g.ch % 256))
    ELSE [ch |-> g.ch, r |-> g.r, result |-> result]

\* readWord, third loop: skip the whitespace after the word as long as the
\* buffer holds it ("pos < buffer.size()" converts the int to size_t)
RECURSIVE readWord2_trail(_)
readWord2_trail(g) ==
    IF ~PosAtEnd(g.r.pos, Len(g.r.buffer))
    THEN LET h == get_int(g.r)
         IN  IF h.ch # -1 /\ is_whitespace(h.ch) THEN readWord2_trail(h) ELSE h
    ELSE g

\* readWord, "if (!is_whitespace(ch)) pos--"
readWord2_back(g) ==
    IF ~is_whitespace(g.ch) THEN [g.r EXCEPT !.pos = @ - 1] ELSE g.r

\* readWord<std::string>() on the reader r.  first is the buffer index of
\* the word's first byte, before the index just past the last byte earlier
\* calls returned, eof_before whether an earlier call was told EOF.
readWord2(r) ==
    LET start == readWord2_unget(readWord2_skip(get_int(r)))
        c == readWord2_collect(get_int(start), <<>>)
        done == readWord2_back(readWord2_trail(Got(c.ch, c.r)))
    IN  [done EXCEPT !.word = c.result,
                     !.first = start.pos,
                     !.before = IF r.word # <<>> /\ r.first + Len(r.word) > r.before
                                THEN r.first + Len(r.word) ELSE r.before,
                     !.eof_before = r.eof,
                     !.calls = IF @ < 2 THEN @ + 1 ELSE @]

ReadWord2 ==
    /\ ucin2.pos >= -MaxBelow
    /\ ucin2' = readWord2(ucin2)
    /\ UNCHANGED <<convVars, readerVars, ucout, utf8_console_instance,
                   fast_string>>

Input2Init ==
    /\ InitConv
    /\ InitReaderIdle
    /\ ucout = OutputFresh
    /\ utf8_console_instance = ConsoleBefore(0, 0)
    /\ fast_string = FastStringFresh
    /\ \E src \in Inputs2 : ucin2 = Input2Fresh(src)

Input2Next == ReadWord2

SpecInput2 == Input2Init /\ [][Input2Next]_vars

----------------------------------------------------------------------------
(* Properties of the conversions, checked under SpecConv                   *)

IsValidCp(cp) == cp >= 0 /\ cp <= 1114111 /\ ~IsSurrogate(cp)
IsCont(b) == b >= 128 /\ b <= 191

\* Well-formed UTF-8 as the Unicode standard defines it (table 3-7),
\* from 1-based index i to the end of s.
RECURSIVE WellFormedFrom(_, _)
WellFormedFrom(s, i) ==
    IF i > Len(s) THEN TRUE
    ELSE LET b == s[i]
             n == Len(s) - i + 1
         IN
         IF b <= 127 THEN WellFormedFrom(s, i + 1)
         ELSE IF b >= 194 /\ b <= 223
         THEN n >= 2 /\ IsCont(s[i + 1]) /\ WellFormedFrom(s, i + 2)
         ELSE IF b >= 224 /\ b <= 239
         THEN /\ n >= 3
              /\ IsCont(s[i + 1]) /\ IsCont(s[i + 2])
              /\ (b = 224 => s[i + 1] >= 160)
              /\ (b = 237 => s[i + 1] <= 159)
              /\ WellFormedFrom(s, i + 3)
         ELSE IF b >= 240 /\ b <= 244
         THEN /\ n >= 4
              /\ IsCont(s[i + 1]) /\ IsCont(s[i + 2]) /\ IsCont(s[i + 3])
              /\ (b = 240 => s[i + 1] >= 144)
              /\ (b = 244 => s[i + 1] <= 143)
              /\ WellFormedFrom(s, i + 4)
         ELSE FALSE

WellFormedUtf8(s) == WellFormedFrom(s, 1)

\* C1: for every code point outside the surrogate range and not above
\* 0x10FFFF, decode_ applied to the bytes encode_ produced returns the code
\* point and consumes exactly those bytes.
C1_EncodeDecodeRoundTrip ==
    (call = "encode_decode" /\ IsValidCp(arg[1]))
        => (ret = arg /\ used = Len(mid))

C1_Witness ==
    /\ call = "encode_decode"
    /\ arg = <<128512>>
    /\ mid = <<240, 159, 152, 128>>
    /\ ret = <<128512>>
    /\ used = 4

SuppBefore(s, k) == Cardinality({j \in 1..(k - 1) : s[j] > 65535})

\* C2: a sequence of valid code points converted to 16-bit units and back
\* is unchanged, and each supplementary code point becomes exactly two
\* units, a high surrogate followed by a low surrogate.
C2_Utf32Utf16RoundTrip ==
    (call = "u32_w_u32" /\ \A k \in 1..Len(arg) : IsValidCp(arg[k]))
        => /\ ret = arg
           /\ Len(mid) = Len(arg) + SuppBefore(arg, Len(arg) + 1)
           /\ \A k \in 1..Len(arg) :
                LET p == k + SuppBefore(arg, k) IN
                IF arg[k] > 65535
                THEN /\ mid[p] >= 55296 /\ mid[p] <= 56319
                     /\ mid[p + 1] >= 56320 /\ mid[p + 1] <= 57343
                ELSE mid[p] = arg[k]

C2_Witness ==
    /\ call = "u32_w_u32"
    /\ arg = <<128512, 65>>
    /\ mid = <<55357, 56832, 65>>
    /\ ret = arg

\* C3: a well-formed UTF-8 byte string converted to 16-bit units and back
\* to 8-bit is returned byte for byte.
C3_Utf8Utf16RoundTrip ==
    (call = "s_w_s" /\ WellFormedUtf8(arg)) => ret = arg

C3_Witness ==
    /\ call = "s_w_s"
    /\ arg = <<240, 144, 128, 128>>
    /\ mid = <<55296, 56320>>
    /\ ret = arg

\* C4: for every byte sequence, the lenient 8-bit -> 32-bit and 8-bit ->
\* 16-bit conversions return without raising, produce at most as many
\* units as there are input bytes, and write no unit outside the buffer
\* pre-sized to the input length.
C4_LenientOutputFitsInput ==
    (call \in {"string_u32string", "string_wstring"})
        => (~raised /\ ~oob /\ Len(ret) <= Len(arg))

C4_Witness ==
    /\ call = "string_wstring"
    /\ arg = <<244, 128>>
    /\ ret = <<REPLACEMENT, REPLACEMENT>>
    /\ ~oob

\* C5: lenient 8-bit decoding repairs the overlong two-byte input C0 80 to
\* the one-element sequence [0xFFFD].
C5_LenientRepairsOverlong ==
    (call = "string_u32string" /\ arg = <<192, 128>>) => ret = <<REPLACEMENT>>

\* One overlong encoding: a code point written with more bytes than needed.
IsOverlong(s) ==
    \/ Len(s) = 2 /\ s[1] \in {192, 193} /\ IsCont(s[2])
    \/ Len(s) = 3 /\ s[1] = 224 /\ s[2] >= 128 /\ s[2] <= 159 /\ IsCont(s[3])
    \/ Len(s) = 4 /\ s[1] = 240 /\ s[2] >= 128 /\ s[2] <= 143
       /\ IsCont(s[3]) /\ IsCont(s[4])

\* C6: the strict conversion string_to_u32string raises on every overlong
\* encoding, of two, three and four bytes alike, in particular on C0 80.
C6_StrictRejectsOverlong ==
    (call = "string_to_u32string" /\ IsOverlong(arg)) => raised

\* The violations C7 lists, scanning s from 1-based index i: an invalid
\* lead byte, a missing or malformed continuation byte, an encoded
\* surrogate or an encoded value above 0x10FFFF.
RECURSIVE HasViolationFrom(_, _)
HasViolationFrom(s, i) ==
    IF i > Len(s) THEN FALSE
    ELSE LET b == s[i]
             n == IF b <= 223 THEN 2 ELSE IF b <= 239 THEN 3 ELSE 4
         IN
         IF b <= 127 THEN HasViolationFrom(s, i + 1)
         ELSE IF (b >= 128 /\ b <= 191) \/ b >= 248 THEN TRUE
         ELSE IF i + n - 1 > Len(s) THEN TRUE
         ELSE IF \E j \in 1..(n - 1) : ~IsCont(s[i + j]) THEN TRUE
         ELSE LET v == IF n = 2 THEN LoBits(b, 5) * 64 + LoBits(s[i + 1], 6)
                       ELSE IF n = 3 THEN LoBits(b, 4) * 4096 + LoBits(s[i + 1], 6) * 64
                                          + LoBits(s[i + 2], 6)
                       ELSE LoBits(b, 3) * 262144 + LoBits(s[i + 1], 6) * 4096
                            + LoBits(s[i + 2], 6) * 64 + LoBits(s[i + 3], 6)
              IN  IF IsSurrogate(v) \/ v > 1114111 THEN TRUE
                  ELSE HasViolationFrom(s, i + n)

\* C7: string_to_u32string raises, returning no partial output, whenever a
\* byte in lead position is 0x80..0xBF or 0xF8..0xFF, a continuation byte is
\* missing or malformed, or the sequence encodes a surrogate or a value
\* above 0x10FFFF.
C7_StrictRejectsMalformed ==
    (call = "string_to_u32string" /\ HasViolationFrom(arg, 1))
        => (raised /\ ret = <<>>)

IsHigh(u) == u >= 55296 /\ u <= 56319
IsLow(u) == u >= 56320 /\ u <= 57343

\* unit k of w is the low half of a surrogate pair
PairedLow(w, k) == k > 1 /\ IsLow(w[k]) /\ IsHigh(w[k - 1])
\* unit k of w is the high half of a surrogate pair
PairedHigh(w, k) == k < Len(w) /\ IsHigh(w[k]) /\ IsLow(w[k + 1])
\* unit k of w is a surrogate outside any pair
Unpaired(w, k) ==
    (IsHigh(w[k]) \/ IsLow(w[k])) /\ ~PairedLow(w, k) /\ ~PairedHigh(w, k)
\* index of the output element that unit k of w starts
OutIndex(w, k) == k - Cardinality({j \in 2..(k - 1) : PairedLow(w, j)})

\* C8: in lenient 16-bit decoding every unpaired surrogate decodes to
\* U+FFFD and consumes exactly one unit, so the units around it are decoded
\* on their own: each unit outside a pair yields exactly one output element
\* (U+FFFD for a surrogate, the unit itself otherwise) and each pair one.
C8_UnpairedSurrogateReplaced ==
    /\ call = "wstring_u32string" =>
        /\ Len(ret) = Len(arg) - Cardinality({j \in 1..Len(arg) : PairedLow(arg, j)})
        /\ \A k \in 1..Len(arg) :
            /\ Unpaired(arg, k) => ret[OutIndex(arg, k)] = REPLACEMENT
            /\ ~(IsHigh(arg[k]) \/ IsLow(arg[k])) => ret[OutIndex(arg, k)] = arg[k]
            /\ PairedHigh(arg, k) => ret[OutIndex(arg, k)] > 65535
    /\ call = "wstring_string" =>
        ret = convert_u32string_string(convert_wstring_u32string(arg).out).out

C8_Witness ==
    /\ call = "wstring_u32string"
    /\ arg = <<55296, 65, 56320>>
    /\ ret = <<REPLACEMENT, 65, REPLACEMENT>>

\* C9: both encoders are total and replace invalid values: for a value in
\* the surrogate range or above 0x10FFFF encode_ emits exactly EF BF BD and
\* the 32-bit -> 16-bit conversion emits exactly the unit 0xFFFD; no value
\* makes either fail or emit more than 4 bytes / 2 units.
C9_EncodersReplaceInvalid ==
    /\ call = "encode_" =>
        /\ ~raised
        /\ Len(ret) >= 1 /\ Len(ret) <= 4
        /\ ~IsValidCp(arg[1]) => ret = <<239, 191, 189>>
    /\ call = "u32string_wstring" =>
        /\ ~raised
        /\ Len(ret) <= 2 * Len(arg)
        /\ (\A k \in 1..Len(arg) : ~IsValidCp(arg[k]))
              => ret = [k \in 1..Len(arg) |-> REPLACEMENT]

C9_Witness ==
    /\ call = "encode_"
    /\ arg = <<55296>>
    /\ ret = <<239, 191, 189>>

----------------------------------------------------------------------------
(* Properties of the reader, checked under SpecReader                      *)

\* C10: after any sequence of get, readWord, readLine, readLines,
\* operator>> and clear calls, 0 <= pos <= buffer.size(), and no reader
\* operation raises the "FastString index out of range" fault.
C10_PosWithinBuffer ==
    /\ 0 <= pos
    /\ pos <= Len(buffer)
    /\ ~fault

C10_Witness ==
    /\ lastop = "readWord"
    /\ word = <<97>>
    /\ buffer = <<32, 97, 32>>
    /\ pos = 2

\* The whitespace bytes: space, tab, LF, CR, form-feed, vertical tab
WsBytes == {32, 9, 10, 13, 12, 11}
NonWsBytes == (0..255) \ WsBytes

\* an input without the bytes 0x00 and 0xFF
Clean(s) == \A i \in 1..Len(s) : s[i] # 0 /\ s[i] # 255

\* least index j >= i of s holding a byte of S, Len(s) + 1 when there is none
FirstIn(s, i, S) ==
    LET J == {j \in i..Len(s) : s[j] \in S}
    IN  IF J = {} THEN Len(s) + 1 ELSE CHOOSE j \in J : \A k \in J : j <= k

\* where the first word of s starts and the index just past its last byte
WordStart(s) == FirstIn(s, 1, NonWsBytes)
WordEnd(s) == FirstIn(s, WordStart(s), WsBytes)

\* the first word of s: the maximal run of non-whitespace bytes after the
\* leading whitespace, empty when s holds whitespace only
FirstWord(s) == SubSeq(s, WordStart(s), WordEnd(s) - 1)

\* what is left of s after its first word: the byte that ends the word is
\* gone when it is a line-feed and stays otherwise
AfterWord(s) ==
    IF WordEnd(s) <= Len(s) /\ s[WordEnd(s)] = 10
    THEN SubSeq(s, WordEnd(s) + 1, Len(s))
    ELSE SubSeq(s, WordEnd(s), Len(s))

\* the input the reader has not consumed yet
Rest == Unread(Self)

\* C11: on an input without 0x00 and 0xFF bytes, every readWord call skips
\* the leading whitespace and returns exactly the maximal run of
\* non-whitespace bytes that follows in the input not yet consumed (the
\* empty string when only whitespace is left), so successive calls return
\* the words of the input in order.
C11_ReadWordReturnsNextWord ==
    [][(pc = "idle" /\ lastop' = "readWord" /\ Clean(Rest))
          => word' = FirstWord(Rest)]_vars

\* "  hello   world\n": the second call has returned "world"
C11_Witness ==
    /\ lastop = "readWord"
    /\ word = <<119, 111, 114, 108, 100>>
    /\ SubSeq(buffer, 1, 7) = <<32, 32, 104, 101, 108, 108, 111>>
    /\ pos = 16
    /\ stdin = <<>>

NotCR(b) == b # 13

\* the first line of s: its bytes up to the first line-feed, or all of them
\* when it holds none, without the carriage returns
FirstLine(s) == SelectSeq(SubSeq(s, 1, FirstIn(s, 1, {10}) - 1), NotCR)

\* what is left of s after its first line and the line-feed that ends it
AfterLine(s) == SubSeq(s, FirstIn(s, 1, {10}) + 1, Len(s))

\* C12: readWord consumes the whitespace byte that ends the word when it is
\* a line-feed and leaves the cursor on it when it is any other whitespace
\* byte; so a readLine that follows a readWord whose word was ended by a
\* line-feed returns the content of the next line.
C12_LineFeedAfterWordConsumed ==
    [][/\ (pc = "idle" /\ lastop' = "readWord" /\ Clean(Rest))
            => Rest' = AfterWord(Rest)
       /\ (/\ lastop = "readWord" /\ word # <<>>
           /\ pos > 0 /\ buffer[pos] = 10
           /\ lastop' = "readLine" /\ Clean(Rest))
            => word' = FirstLine(Rest)]_vars

\* "a b\ncd\n": the second readWord has returned "b" and consumed the
\* line-feed, "cd\n" is still in the source
C12_Witness ==
    /\ lastop = "readWord"
    /\ word = <<98>>
    /\ buffer = <<97, 32, 98, 10>>
    /\ pos = 4
    /\ stdin = <<99, 100, 10>>

\* C13: on an input without 0x00 and 0xFF bytes, readLine returns the bytes
\* from the cursor up to, not including, the next line-feed (up to the end
\* of the input when no line-feed is left) with every carriage return
\* removed, and leaves the cursor just past that line-feed; at the end of
\* the input it returns the empty string.
C13_ReadLineReturnsNextLine ==
    [][(pc = "idle" /\ lastop' = "readLine" /\ Clean(Rest))
          => /\ word' = FirstLine(Rest)
             /\ Rest' = AfterLine(Rest)]_vars

\* "abc\r\ndef": the second call has returned "def"
C13_Witness ==
    /\ lastop = "readLine"
    /\ word = <<100, 101, 102>>
    /\ buffer = <<97, 98, 99, 13, 10, 100, 101, 102>>
    /\ pos = 8
    /\ stdin = <<>>

\* the positions of the line-feeds of s, and the k-th of them (0 before
\* the first line, Len(s) + 1 after the last line-feed)
LFs(s) == {i \in 1..Len(s) : s[i] = 10}
NthLF(s, k) ==
    IF k = 0 THEN 0
    ELSE IF k > Cardinality(LFs(s)) THEN Len(s) + 1
    ELSE CHOOSE i \in LFs(s) : Cardinality({j \in LFs(s) : j <= i}) = k

\* the k-th line of s without its carriage returns; the line after the
\* last line-feed is line Cardinality(LFs(s)) + 1
LineAt(s, k) == SelectSeq(SubSeq(s, NthLF(s, k - 1) + 1, NthLF(s, k) - 1), NotCR)

\* number of the first empty line of s, the end of the input after a final
\* line-feed counting as one; one more than the number of lines when no
\* line is empty
FirstEmpty(s) ==
    LET E == {k \in 1..(Cardinality(LFs(s)) + 1) : LineAt(s, k) = <<>>}
    IN  IF E = {} THEN Cardinality(LFs(s)) + 2
        ELSE CHOOSE k \in E : \A j \in E : k <= j

\* a readLines call has returned and no other operation has run since
ReadLinesReturned == pc = "idle" /\ lastop = "readLines"

\* C14: readLines(true), on an input without 0x00 and 0xFF bytes, returns
\* in read order exactly the lines before the first empty line (a line of
\* carriage returns only is empty); the empty line is consumed, not
\* recorded, and what follows it stays unread.
C14_ReadLinesStopsAtEmptyLine ==
    (ReadLinesReturned /\ empty_break /\ break_word = -1 /\ Clean(entry))
        => /\ lines = [k \in 1..(FirstEmpty(entry) - 1) |-> LineAt(entry, k)]
           /\ Rest = SubSeq(entry, NthLF(entry, FirstEmpty(entry)) + 1, Len(entry))

\* "a\nb\n\nc\n" yields ["a", "b"] and leaves "c\n"
C14_Witness ==
    /\ ReadLinesReturned /\ empty_break /\ break_word = -1
    /\ entry = <<97, 10, 98, 10, 10, 99, 10>>
    /\ lines = << <<97>>, <<98>> >>
    /\ Rest = <<99, 10>>

----------------------------------------------------------------------------
(* Termination of the read operations, checked under SpecReaderLive        *)

\* C15: every read operation terminates once the source is exhausted,
\* whatever empty_break and break_word are: a readLines call that has been
\* entered returns.  (readWord and readLine are single steps of the model.)
C15_ReadLinesTerminates == (pc = "readLines") ~> (pc = "idle")

----------------------------------------------------------------------------
(* Properties of the reader, checked under SpecReader (continued)          *)

\* number of lines of s: one per line-feed, and one more for a last line
\* that no line-feed ends
NumLines(s) ==
    IF s = <<>> \/ s[Len(s)] = 10 THEN Cardinality(LFs(s))
    ELSE Cardinality(LFs(s)) + 1

\* C16: readLines with its default arguments returns exactly the lines of
\* the remaining input in read order: n entries for an input of n lines
\* each ended by a line-feed, and the unterminated last line as the final
\* entry otherwise.
C16_ReadLinesReturnsTheLines ==
    (/\ ReadLinesReturned /\ ~empty_break /\ break_word = -1
     /\ Clean(entry) /\ entry # <<>>)
        => lines = [k \in 1..NumLines(entry) |-> LineAt(entry, k)]

----------------------------------------------------------------------------
(* Independence of the chunk size, checked under SpecChunk                 *)

\* C17: whatever the chunk size, every readWord and readLine call returns
\* what the same call returns on a reader of the same source whose every
\* refill delivers the input up to the next line-feed.
C17_ChunkSizeIndependent == word = refword

----------------------------------------------------------------------------
(* The decoded read operations, checked under SpecDecoded                  *)

\* C18: readWord<std::u32string> and readLine<std::u32string> follow the
\* lenient policy: whatever bytes the token or line holds, the operation
\* returns a value without raising, and a malformed token or line comes
\* back with U+FFFD in place of the malformed bytes.
C18_DecodedReadsAreLenient ==
    (call \in {"readWord_u32string", "readLine_u32string"})
        => /\ ~raised
           /\ ~WellFormedUtf8(mid) => \E k \in 1..Len(ret) : ret[k] = REPLACEMENT

----------------------------------------------------------------------------
(* Properties of the reader, checked under SpecReader (continued)          *)

Digits == 48..57

\* where the number of token t starts (after a sign) and the index just
\* past its last digit
NumStart(t) == IF t # <<>> /\ t[1] \in {43, 45} THEN 2 ELSE 1
NumEnd(t) == FirstIn(t, NumStart(t), (0..255) \ Digits)

\* the digits of the number of t after its leading zeros
Significant(t) ==
    SubSeq(t, FirstIn(t, NumStart(t), (0..255) \ {48}), NumEnd(t) - 1)

\* the decimal number d (ten digits at most fit) is above the number lim
Exceeds(d, lim) ==
    \/ Len(d) > Len(lim)
    \/ /\ Len(d) = Len(lim)
       /\ \E i \in 1..Len(d) :
            d[i] > lim[i] /\ \A j \in 1..(i - 1) : d[j] = lim[j]

\* "2147483647" and "2147483648"
IntMaxDigits == <<50, 49, 52, 55, 52, 56, 51, 54, 52, 55>>
IntMinDigits == <<50, 49, 52, 55, 52, 56, 51, 54, 52, 56>>

\* the token t is no int: no digit where the number should start, or a
\* number outside -2147483648..2147483647; the empty token is none either
CannotParse(t) ==
    \/ NumEnd(t) = NumStart(t)
    \/ Exceeds(Significant(t),
               IF t[1] = 45 THEN IntMinDigits ELSE IntMaxDigits)

Consumed == SubSeq(buffer, 1, pos)

\* what the read operation op returns when it consumes the bytes c
ReturnedFrom(op, c) ==
    IF op = "readLine" THEN FirstLine(c)
    ELSE IF op = "get" THEN (IF c = <<>> THEN <<255>> ELSE c)
    ELSE FirstWord(c)

\* C20: clear() leaves pos = 0 and an empty buffer in every reader state,
\* discarding the bytes buffered but not consumed and leaving the source
\* alone; the read that follows works on bytes pulled from the source after
\* the clear: its buffer and the source together are what the source held,
\* and what it returns is made of the bytes of that buffer it consumed.
C20_ClearDiscardsBuffer ==
    [][/\ (pc = "idle" /\ lastop' = "clear")
            => (pos' = 0 /\ buffer' = <<>> /\ stdin' = stdin)
       /\ (/\ lastop = "clear" /\ Clean(stdin)
           /\ lastop' \in {"get", "readWord", "readLine", "operator>>"})
            => /\ buffer' \o stdin' = stdin
               /\ word' = ReturnedFrom(lastop', Consumed')
       /\ (lastop = "clear" /\ lastop' = "readLines")
            => entry' = stdin]_vars

\* "a b\ncd\n": readWord returned "a", clear dropped " b\n" from the
\* buffer, and the next readWord returned "cd" from the source
C20_Witness ==
    /\ lastop = "readWord"
    /\ word = <<99, 100>>
    /\ buffer = <<99, 100, 10>>
    /\ pos = 3
    /\ stdin = <<>>

----------------------------------------------------------------------------
(* Properties of the writer, checked under SpecOutput                      *)

\* C21: after setAutoFlush(true) every operator<< is followed by a flush of
\* the stream, and after setAutoFlush(false) it is not: the insertion that
\* just ran called fflush exactly when should_flush is set.
C21_AutoFlushFollowsEveryInsert ==
    ucout.op = "operator<<" => ucout.flushed = ucout.should_flush

----------------------------------------------------------------------------
(* Properties of the console code pages, checked under SpecConsole         *)

\* C22: in a process that has a console, both code pages are UTF-8 while
\* the program runs, and on every way out of the process, the normal one
\* and the one through an error, both are back at the values the process
\* found.
C22_CodePagesRestoredOnEveryExit ==
    LET c == utf8_console_instance
    IN (c.first_cp # 0 /\ c.first_output_cp # 0) =>
        /\ c.phase = "running" => c.cp = CP_UTF8 /\ c.output_cp = CP_UTF8
        /\ c.phase \in {"exited", "terminated"} =>
              c.cp = c.first_cp /\ c.output_cp = c.first_output_cp

----------------------------------------------------------------------------
(* Further properties of the reader, checked under SpecReader              *)

\* C23: get() returns the end marker only when the source is exhausted:
\* whatever bytes 0x00..0xFF the source delivers, after a get() that
\* returned EOF no byte is left, neither in the buffer past the cursor nor
\* in the source.
C23_EndMarkerOnlyWhenExhausted ==
    (lastop = "get" /\ word = <<EOFc>>) => Rest = <<>>

\* the number of bytes a refill pulls from src: up to the first line-feed,
\* up to chunkSize bytes, or all of src
RefillLength(src) ==
    LET lf == FirstIn(src, 1, {10})
        m == IF lf < Len(src) THEN lf ELSE Len(src)
    IN  IF m < chunkSize THEN m ELSE chunkSize

\* C24: a get() that finds the cursor at the end of the buffer pulls bytes
\* up to the first line-feed, 1024 bytes or the end of the source, and any
\* get() appends exactly the bytes it pulled: the buffer's old bytes stay
\* and buffer followed by the rest of the source is the same sequence
\* before and after.  By induction the buffer is the sequence of all bytes
\* pulled since the last clear().
C24_RefillAppendsExactlyThePulledBytes ==
    [][(pc = "idle" /\ lastop' = "get") =>
        /\ buffer' \o stdin' = buffer \o stdin
        /\ Len(stdin) - Len(stdin') =
              IF pos = Len(buffer) THEN RefillLength(stdin) ELSE 0]_vars

----------------------------------------------------------------------------
(* Further properties of the conversions, checked under SpecConv           *)

\* C25: every element of the result of the lenient 8-bit -> 32-bit
\* conversion is a valid code point, at most 0x10FFFF and no surrogate.
C25_LenientResultIsValidCodePoints ==
    call = "string_u32string" =>
        \A k \in 1..Len(ret) : IsValidCp(ret[k])

\* the number of bytes the sequence that starts with lead is made of
SequenceLength(lead) ==
    IF lead < 128 THEN 1
    ELSE IF HiBits(lead, 5) = 192 THEN 2
    ELSE IF HiBits(lead, 4) = 224 THEN 3
    ELSE IF HiBits(lead, 3) = 240 THEN 4
    ELSE 1

\* C26: decode_ called with src < end advances src by 1 to 4 bytes and
\* never past end; every byte it reads is read through *src++, so the bytes
\* read are those between the old and the new src and all lie below end.
\* A lead byte of a sequence longer than the bytes left below end yields
\* 0xFFFD with src just past the lead byte: no continuation byte was read.
C26_DecodeStaysBelowEnd ==
    call = "decode_" =>
        LET from == mid[1]
            upto == mid[2]
        IN  /\ used >= from + 1
            /\ used <= from + 4
            /\ used <= upto
            /\ SequenceLength(arg[from + 1]) > upto - from =>
                  ret = <<REPLACEMENT>> /\ used = from + 1

\* a three-byte sequence cut after its second byte
C26_Witness ==
    /\ call = "decode_"
    /\ arg = <<224, 160, 128>>
    /\ mid = <<0, 2>>
    /\ ret = <<REPLACEMENT>>
    /\ used = 1

----------------------------------------------------------------------------
(* Properties of FastString, checked under SpecFastString                  *)

\* C27: after any sequence of push_back, append, clear and reserve calls
\* every byte written, the NUL terminator at index size_ included, went to
\* an index below capacity_, and size_ < capacity_ whenever data_ is
\* allocated.
C27_WritesStayBelowCapacity ==
    /\ ~fast_string.written_past
    /\ fast_string.capacity_ > 0 => fast_string.size_ < fast_string.capacity_

----------------------------------------------------------------------------
(* Properties of the std::string-buffered reader, checked under SpecInput2 *)

\* C28: across any sequence of readWord calls no input byte is delivered
\* twice: after every call pos is not below zero and not below the end of
\* the word just returned, a returned word starts at or after the end of
\* the words returned before, and a call made after an earlier call was
\* told end-of-input returns the empty string.
C28_NoByteDeliveredTwice ==
    ucin2.calls > 0 =>
        /\ ucin2.pos >= 0
        /\ ucin2.pos >= ucin2.before
        /\ ucin2.word # <<>> =>
              /\ ucin2.first >= ucin2.before
              /\ ucin2.pos >= ucin2.first + Len(ucin2.word)
        /\ ucin2.eof_before => ucin2.word = <<>>

----------------------------------------------------------------------------
(* readWord followed by readLine, checked under SpecReader                 *)

\* C29: when readWord has returned a word that is followed by CR LF, the
\* readLine called next returns the content of the line after that line
\* ending, not an empty line.
C29_ReadLineAfterWordSkipsCRLF ==
    [][(/\ pc = "idle"
        /\ lastop = "readWord"
        /\ word # <<>>
        /\ Len(Rest) >= 2
        /\ Rest[1] = 13
        /\ Rest[2] = 10
        /\ Clean(Rest)
        /\ lastop' = "readLine")
          => word' = FirstLine(SubSeq(Rest, 3, Len(Rest)))]_vars

----------------------------------------------------------------------------
(* The constructor of FastString, checked under SpecFastString             *)

\* C30: a FastString constructed from a non-empty C string s holds exactly
\* s: size() is the length of s and to_string() is s byte for byte.
C30_ConstructedHoldsTheString ==
    (fast_string.op = "FastString" /\ fast_string.arg # <<>>) =>
        /\ fast_string.size_ = Len(fast_string.arg)
        /\ fs_to_string(fast_string) = fast_string.arg

====
